---- MODULE Spec2Model ----
(***************************************************************************)
(* FrappeDeskTheme (frappe_desk_theme.js): the theme controller of the     *)
(* desk.  The model covers the controller's state (themeData), the         *)
(* localStorage cache entry, the fetches in flight, the document (style    *)
(* properties of the root element, the sidebar class, the search bar's     *)
(* inline display, the login box's class and its pending timers) and the   *)
(* operations init, loadTheme, refreshTheme, clearCache, applyTheme and    *)
(* the two listeners.                                                      *)
(*                                                                         *)
(* JavaScript values are encoded as strings: Undef is undefined, Null is   *)
(* null, "0" and "1" are the numbers 0 and 1, every other string is that   *)
(* string.  An object is a record of its fields; a field a JSON object     *)
(* does not carry reads as Undef.                                          *)
(***************************************************************************)
EXTENDS Integers, Sequences, FiniteSets, TLC

\* ------------------------------------------------------------------ bounds
\* What the environment does (events, calls of the public methods, ticks of
\* the clock, reloads of the page) in one run, and the fetches in flight at once.
MaxActs == 2
MaxReq == 2

\* ------------------------------------------------------- JavaScript values
Undef == "undefined"
Null == "null"

\* ToBoolean of a scalar: undefined, null, 0, "" and false are falsy.
Truthy(v) == v \notin {Undef, Null, "0", "", "false"}

\* The scalar fields of a ThemeConfig that the controller reads.
Fields ==
    { "login_page_background_color", "login_page_background_image",
      "login_box_position", "is_app_details_inside_the_box",
      "login_box_background_color", "login_button_background_color",
      "login_button_text_color", "login_page_button_hover_background_color",
      "login_page_button_hover_text_color", "page_heading_text_color",
      "login_page_title", "input_background_color", "input_text_color",
      "input_border_color", "input_label_color", "navbar_color",
      "navbar_text_color", "hide_help_button", "hide_app_switcher",
      "button_background_color", "button_text_color",
      "button_hover_background_color", "button_hover_text_color",
      "secondary_button_background_color", "secondary_button_text_color",
      "secondary_button_hover_background_color",
      "secondary_button_hover_text_color", "body_background_color",
      "main_body_content_box_background_color",
      "main_body_content_box_text_color", "sidebar_background_color",
      "sidebar_text_color", "table_head_background_color",
      "table_head_text_color", "table_body_background_color",
      "table_body_text_color", "table_hide_like_comment_section",
      "number_card_background_color", "number_card_border_color",
      "number_card_text_color", "hide_side_bar", "default_app" }

NoFields == [x \in Fields |-> Undef]

\* hide_search: absent, or a list of {role} records (kept as the set of roles).
NoSearch == [present |-> FALSE, roles |-> {}]

\* The `message` field of an object that is no wrapper of a theme.
NoMsg == Undef

\* A JavaScript value as the controller sees it: kind is "null", "falsy" (a
\* falsy scalar that is not null: "", 0, false) or "object".
NullV == [kind |-> "null", f |-> NoFields, hs |-> NoSearch, msg |-> NoMsg]
FalsyV == [kind |-> "falsy", f |-> NoFields, hs |-> NoSearch, msg |-> NoMsg]
EmptyObj == [kind |-> "object", f |-> NoFields, hs |-> NoSearch, msg |-> NoMsg]

TruthyV(v) == v.kind = "object"

\* theme.x: a property read throws on null, gives undefined on a scalar.
Get(theme, x) == IF theme.kind = "object" THEN theme.f[x] ELSE Undef

\* this.themeData?.hide_search
HideSearch(theme) == IF theme.kind = "object" THEN theme.hs ELSE NoSearch

Obj(fields, search) ==
    [kind |-> "object",
     f |-> [x \in Fields |-> IF x \in DOMAIN fields THEN fields[x] ELSE Undef],
     hs |-> search, msg |-> NoMsg]

\* A JSON body: the value m itself, or the server's wrapper {message: m}.
Bare(m) == [wrapper |-> FALSE, value |-> m]
Wrap(m) == [wrapper |-> TRUE, value |-> m]

\* The wrapper {message: m} as an object of its own, for a falsy m.
WrapperOf(m) ==
    [kind |-> "object", f |-> NoFields, hs |-> NoSearch,
     msg |-> IF m.kind = "null" THEN Null ELSE ""]

\* data?.message || data
Unwrap(data) ==
    IF ~data.wrapper THEN data.value
    ELSE IF data.value.kind = "object" THEN data.value
    ELSE WrapperOf(data.value)

\* ---------------------------------------------------------- root element style
\* The properties clearCSSVariables removes.
ClearedProps ==
    { "--login-bg-color", "--login-bg-image", "--login-box-position",
      "--login-box-right", "--login-box-left", "--login-btn-bg",
      "--login-btn-color", "--login-btn-hover-bg", "--login-btn-hover-color",
      "--login-box-bg", "--page-heading-color", "--input-bg", "--input-color",
      "--input-border", "--input-label-color", "--navbar-bg", "--navbar-color",
      "--hide-help", "--btn-primary-bg", "--btn-primary-color",
      "--btn-primary-hover-bg", "--btn-primary-hover-color",
      "--btn-secondary-bg", "--btn-secondary-color",
      "--btn-secondary-hover-bg", "--btn-secondary-hover-color", "--body-bg",
      "--content-bg", "--table-head-bg", "--table-head-color",
      "--table-body-bg", "--table-body-color", "--hide-like-comment",
      "--widget-bg", "--widget-border", "--widget-color", "--sidebar-expanded",
      "--login-content-border", "--login-title-display",
      "--login-title-after-display", "--login-title-after-justify",
      "--login-title-after-margin", "--login-title-after-content",
      "--login-title-after-color", "--login-box-top",
      "--login-box-bg-override", "--login-box-border-radius",
      "--search-bar-display", "--navbar-toggler-border",
      "--breadcrumb-disabled-color", "--help-nav-link-color",
      "--help-nav-link-stroke", "--hide-app-switcher",
      "--app-switcher-pointer-events" }

\* Every property the controller writes.
Props ==
    ClearedProps \cup
    { "--login-box-width", "--login-box-padding", "--content-text-color",
      "--sidebar-bg", "--sidebar-text-color" }

\* The root element's inline style: "" is a property that is not set.
NoStyle == [p \in Props |-> ""]

\* root.style.setProperty(p, v): null and "" remove the property, undefined
\* is written as the text "undefined".
SetProperty(s, p, v) == [s EXCEPT ![p] = IF v = Null THEN "" ELSE v]

\* root.style.removeProperty(p)
RemoveProperty(s, p) == [s EXCEPT ![p] = ""]

IsCleared == [p \in Props |-> p \in ClearedProps]

clearCSSVariables(s) == [p \in Props |-> IF IsCleared[p] THEN "" ELSE s[p]]

\* The table of setDefaultCSSVariables.
Defaults ==
    [ p \in { "--login-box-position", "--login-box-right", "--login-box-left",
              "--login-box-top", "--login-box-bg", "--login-content-border",
              "--login-title-display", "--login-title-after-display",
              "--hide-help", "--hide-like-comment", "--hide-app-switcher",
              "--app-switcher-pointer-events", "--sidebar-expanded",
              "--login-box-width", "--search-bar-display",
              "--navbar-toggler-border", "--breadcrumb-disabled-color",
              "--help-nav-link-color", "--help-nav-link-stroke" } |->
        CASE p = "--login-box-position" -> "static"
          [] p = "--login-box-right" -> "auto"
          [] p = "--login-box-left" -> "auto"
          [] p = "--login-box-top" -> "18%"
          [] p = "--login-box-bg" -> "#fff"
          [] p = "--login-content-border" -> "2px solid #d1d8dd"
          [] p = "--login-title-display" -> "block"
          [] p = "--login-title-after-display" -> "none"
          [] p = "--hide-help" -> "block"
          [] p = "--hide-like-comment" -> "block"
          [] p = "--hide-app-switcher" -> "block"
          [] p = "--app-switcher-pointer-events" -> "auto"
          [] p = "--sidebar-expanded" -> ""
          [] p = "--login-box-width" -> "400px"
          [] p = "--search-bar-display" -> "block"
          [] p = "--navbar-toggler-border" -> "#dee2e6"
          [] p = "--breadcrumb-disabled-color" -> "#6c757d"
          [] p = "--help-nav-link-color" -> "inherit"
          [] p = "--help-nav-link-stroke" -> "currentColor" ]

\* Defaults over all properties; Undef where the table has no entry.
DefaultOf == [p \in Props |-> IF p \in DOMAIN Defaults THEN Defaults[p] ELSE Undef]

\* setDefaultCSSVariables with a --login-box-top of 26%.
setDefaultCSSVariables_Top26(s) ==
    [p \in Props |-> IF p = "--login-box-top" THEN "26%"
                     ELSE IF DefaultOf[p] # Undef THEN DefaultOf[p] ELSE s[p]]

setDefaultCSSVariables(s) ==
    [p \in Props |-> IF DefaultOf[p] # Undef THEN DefaultOf[p] ELSE s[p]]

\* The fields setCSSVariables copies unchanged to one property when truthy.
DirectMap ==
    { <<"login_page_background_color", "--login-bg-color">>,
      <<"login_button_background_color", "--login-btn-bg">>,
      <<"login_button_text_color", "--login-btn-color">>,
      <<"login_page_button_hover_background_color", "--login-btn-hover-bg">>,
      <<"login_page_button_hover_text_color", "--login-btn-hover-color">>,
      <<"login_box_background_color", "--login-box-bg">>,
      <<"page_heading_text_color", "--page-heading-color">>,
      <<"input_background_color", "--input-bg">>,
      <<"input_text_color", "--input-color">>,
      <<"input_border_color", "--input-border">>,
      <<"input_label_color", "--input-label-color">>,
      <<"navbar_color", "--navbar-bg">>,
      <<"navbar_text_color", "--navbar-color">>,
      <<"button_background_color", "--btn-primary-bg">>,
      <<"button_text_color", "--btn-primary-color">>,
      <<"button_hover_background_color", "--btn-primary-hover-bg">>,
      <<"button_hover_text_color", "--btn-primary-hover-color">>,
      <<"secondary_button_background_color", "--btn-secondary-bg">>,
      <<"secondary_button_text_color", "--btn-secondary-color">>,
      <<"secondary_button_hover_background_color", "--btn-secondary-hover-bg">>,
      <<"secondary_button_hover_text_color", "--btn-secondary-hover-color">>,
      <<"body_background_color", "--body-bg">>,
      <<"main_body_content_box_background_color", "--content-bg">>,
      <<"main_body_content_box_text_color", "--content-text-color">>,
      <<"sidebar_background_color", "--sidebar-bg">>,
      <<"sidebar_text_color", "--sidebar-text-color">>,
      <<"table_head_background_color", "--table-head-bg">>,
      <<"table_head_text_color", "--table-head-color">>,
      <<"table_body_background_color", "--table-body-bg">>,
      <<"table_body_text_color", "--table-body-color">>,
      <<"number_card_background_color", "--widget-bg">>,
      <<"number_card_border_color", "--widget-border">>,
      <<"number_card_text_color", "--widget-color">> }

\* The field DirectMap copies to a property; Undef where it has none.
DirectField ==
    [p \in Props |->
        IF \E m \in DirectMap : m[2] = p
        THEN (CHOOSE m \in DirectMap : m[2] = p)[1]
        ELSE Undef]

\* The "if (theme.x) setProperty(p, theme.x)" statements of setCSSVariables.
SetDirect(s, theme) ==
    [p \in Props |->
        IF DirectField[p] # Undef /\ Truthy(Get(theme, DirectField[p]))
        THEN Get(theme, DirectField[p])
        ELSE s[p]]

\* if (c) setProperty(p, v)
SetIf(c, s, p, v) == IF c THEN SetProperty(s, p, v) ELSE s

\* The statements of setCSSVariables that derive a value; no property is
\* written by two of them, nor by one of them and SetDirect.
SetDerived(s, theme) ==
    LET pos == Get(theme, "login_box_position")
        inside == Get(theme, "is_app_details_inside_the_box")
        title == Get(theme, "login_page_title")
        positioned == Truthy(pos) /\ pos # "Default"
        s1 == SetIf(Truthy(Get(theme, "login_page_background_image")), s,
                    "--login-bg-image",
                    "url(\"" \o Get(theme, "login_page_background_image") \o "\")")
        s2 == SetIf(positioned, s1, "--login-box-position", "absolute")
        s3 == SetIf(positioned, s2, "--login-box-right",
                    IF pos = "Right" THEN "10%" ELSE "auto")
        s4 == SetIf(positioned, s3, "--login-box-left",
                    IF pos = "Left" THEN "10%" ELSE "auto")
        s5 == SetIf(positioned, s4, "--login-box-padding",
                    IF inside = "1" THEN "18px 40px 40px 40px" ELSE "40px")
        s6 == SetIf(inside # Undef, s5, "--login-box-top",
                    IF inside = "1" THEN "26%" ELSE "18%")
        s7 == SetIf(inside = "1", s6, "--login-box-bg-override",
                    Get(theme, "login_box_background_color"))
        s8 == SetIf(inside = "1", s7, "--login-box-border-radius", "10px")
        s9 == SetIf(inside = "1", s8, "--login-content-border", "none")
        s10 == SetIf(Truthy(title), s9, "--login-title-display", "none")
        s11 == SetIf(Truthy(title), s10, "--login-title-after-display", "flex")
        s12 == SetIf(Truthy(title), s11, "--login-title-after-justify", "center")
        s13 == SetIf(Truthy(title), s12, "--login-title-after-margin", "10px")
        s14 == SetIf(Truthy(title), s13, "--login-title-after-content",
                     "'" \o title \o "'")
        s15 == SetIf(Truthy(title) /\ Truthy(Get(theme, "page_heading_text_color")),
                     s14, "--login-title-after-color",
                     Get(theme, "page_heading_text_color"))
        s16 == SetIf(Get(theme, "hide_help_button") # Undef, s15, "--hide-help",
                     IF Truthy(Get(theme, "hide_help_button")) THEN "none" ELSE "block")
        s17 == SetIf(Get(theme, "hide_app_switcher") # Undef, s16,
                     "--hide-app-switcher",
                     IF Truthy(Get(theme, "hide_app_switcher")) THEN "none" ELSE "block")
        s18 == SetIf(Get(theme, "hide_app_switcher") # Undef, s17,
                     "--app-switcher-pointer-events",
                     IF Truthy(Get(theme, "hide_app_switcher")) THEN "none" ELSE "auto")
        s19 == SetIf(Get(theme, "table_hide_like_comment_section") # Undef, s18,
                     "--hide-like-comment",
                     IF Truthy(Get(theme, "table_hide_like_comment_section"))
                     THEN "none" ELSE "block")
        s20 == SetIf(Get(theme, "hide_side_bar") # Undef, s19, "--sidebar-expanded",
                     IF Get(theme, "hide_side_bar") = "0" THEN "expanded" ELSE "")
    IN s20

\* setCSSVariables: clear, set the defaults, then map the fields of the
\* theme.  With themeData null the first read of a field throws a TypeError,
\* after the clear and the defaults have been written.
setCSSVariables(s, theme) ==
    LET s0 == setDefaultCSSVariables(clearCSSVariables(s)) IN
    IF theme.kind = "null"
    THEN [style |-> s0, threw |-> TRUE]
    ELSE [style |-> SetDerived(SetDirect(s0, theme), theme), threw |-> FALSE]

\* ------------------------------------------------------------------- state
VARIABLES
    themeData,   \* this.themeData
    storage,     \* the text localStorage holds under cacheKey
    now,         \* Date.now()
    env,         \* the host page: which elements exist, frappe.boot.user.roles,
                 \* frappe.app.sidebar.apps_switcher
    page,        \* the document: root style, classes, inline display, timers
    pc,          \* where init() stands
    reqs,        \* the fetches in flight: how many each caller of loadTheme awaits
    listeners,   \* how often each listener has been installed
    unhandled,   \* the callers whose promise rejected with nobody to catch it
    emitted,     \* the 'themeRefreshed' events dispatched: how many, and the
                 \* detail.themeData of the latest
    fetches,     \* fetches issued since the page was loaded
    acts,        \* how often the environment has acted so far
    last         \* the last init or loadTheme that ran on this page, and how
                 \* it ended

vars ==
    << themeData, storage, now, env, page, pc, reqs, listeners, unhandled,
       emitted, fetches, acts, last >>

\* this.cacheTimeout
cacheTimeout == 24 * 60 * 60 * 1000

\* ------------------------------------------------------------ localStorage
UndefV == [kind |-> "undefined", f |-> NoFields, hs |-> NoSearch, msg |-> NoMsg]

NoItem == [kind |-> "absent", data |-> UndefV, timestamp |-> 0, version |-> 0]
Garbage == [kind |-> "garbage", data |-> UndefV, timestamp |-> 0, version |-> 0]

\* Stringify with a replacer that loses the hide_search list.
Stringify_DropsList(entry) ==
    [kind |-> "json", data |-> [entry.data EXCEPT !.hs = NoSearch],
     timestamp |-> entry.timestamp, version |-> entry.version]

\* JSON.stringify({data, timestamp, version}): a data of undefined is left out.
Stringify(entry) ==
    [kind |-> "json", data |-> entry.data, timestamp |-> entry.timestamp,
     version |-> entry.version]

\* getCachedTheme that takes an unparseable text for an entry written now.
getCachedTheme_GarbageFresh(text) ==
    IF text.kind = "json"
    THEN [exists |-> TRUE, data |-> text.data, timestamp |-> text.timestamp,
          version |-> text.version]
    ELSE IF text.kind = "garbage"
    THEN [exists |-> TRUE, data |-> UndefV, timestamp |-> now, version |-> 0]
    ELSE [exists |-> FALSE, data |-> UndefV, timestamp |-> 0, version |-> 0]

\* getCachedTheme: the parsed entry, or null (exists = FALSE) when there is
\* no item or JSON.parse throws.
getCachedTheme(text) ==
    IF text.kind = "json"
    THEN [exists |-> TRUE, data |-> text.data, timestamp |-> text.timestamp,
          version |-> text.version]
    ELSE [exists |-> FALSE, data |-> UndefV, timestamp |-> 0, version |-> 0]

\* setCachedTheme that removes the item when it cannot write it.
setCachedTheme_RemovesOnFail(text, theme, t) ==
    IF env.storageFull
    THEN NoItem
    ELSE Stringify([data |-> theme, timestamp |-> t, version |-> 1])

\* setCachedTheme: setItem throws when the storage is full; the error is
\* swallowed and the item stays as it was.
setCachedTheme(text, theme, t) ==
    IF env.storageFull
    THEN text
    ELSE Stringify([data |-> theme, timestamp |-> t, version |-> 1])

\* isCacheValid with <= for <.
isCacheValid_Inclusive(text, t) ==
    LET cachedData == getCachedTheme(text) IN
    IF ~cachedData.exists THEN FALSE
    ELSE t - cachedData.timestamp <= cacheTimeout

isCacheValid(text, t) ==
    LET cachedData == getCachedTheme(text) IN
    IF ~cachedData.exists THEN FALSE
    ELSE t - cachedData.timestamp < cacheTimeout

\* applyCachedTheme that takes the entry only while it has not expired.
HasData_ValidOnly(text) ==
    LET cachedData == getCachedTheme(text) IN
    cachedData.exists /\ TruthyV(cachedData.data) /\ isCacheValid(text, now)

\* cachedData && cachedData.data
HasData(text) ==
    LET cachedData == getCachedTheme(text) IN
    cachedData.exists /\ TruthyV(cachedData.data)

\* ---------------------------------------------------------------- the page
\* getUserRoles without the special handling of Administrator.
getUserRoles_AnyRole(theme) ==
    LET currentUser == env.roles
        hide_search == HideSearch(theme)
    IN  IF ~currentUser.present \/ ~hide_search.present THEN FALSE
        ELSE \E role \in currentUser.list : role \in hide_search.roles

\* getUserRoles: whether the search bar is to be hidden for the current user.
getUserRoles(theme) ==
    LET currentUser == env.roles
        hide_search == HideSearch(theme)
    IN  IF ~currentUser.present \/ ~hide_search.present THEN FALSE
        ELSE IF "Administrator" \in currentUser.list
             THEN "Administrator" \in hide_search.roles
             ELSE \E role \in currentUser.list : role \in hide_search.roles

\* toggleSidebar that tests !hide_side_bar for hide_side_bar === 0.
toggleSidebar_Falsy(p, theme) ==
    IF ~env.sidebar THEN p
    ELSE [p EXCEPT !.expanded = ~Truthy(Get(theme, "hide_side_bar"))]

\* toggleSidebar with classList.toggle for classList.add.
toggleSidebar_Toggles(p, theme) ==
    IF ~env.sidebar THEN p
    ELSE [p EXCEPT !.expanded = IF Get(theme, "hide_side_bar") = "0"
                                THEN ~p.expanded ELSE FALSE]

toggleSidebar(p, theme) ==
    IF ~env.sidebar THEN p
    ELSE [p EXCEPT !.expanded = (Get(theme, "hide_side_bar") = "0")]

toggleSearchBar(p, theme) ==
    IF ~p.searchBar THEN p
    ELSE IF getUserRoles(theme) THEN [p EXCEPT !.searchDisplay = "none"]
    ELSE p

\* setDefaultApp that does not test hide_app_switcher.
setDefaultApp_AnySwitcher(p, theme) ==
    IF ~Truthy(Get(theme, "default_app"))
    THEN p
    ELSE IF env.switcher # "absent"
         THEN [p EXCEPT !.appCalls = Append(@, Get(theme, "default_app"))]
         ELSE p

\* setDefaultApp: the call is made (and recorded) whether or not it throws;
\* a throw is caught.
setDefaultApp(p, theme) ==
    IF ~Truthy(Get(theme, "hide_app_switcher")) \/ ~Truthy(Get(theme, "default_app"))
    THEN p
    ELSE IF env.switcher # "absent"
         THEN [p EXCEPT !.appCalls = Append(@, Get(theme, "default_app"))]
         ELSE p

\* showLoginBox: a 50 ms timer that adds 'theme-ready'.
showLoginBox(p) ==
    IF env.loginBox THEN [p EXCEPT !.timers = @ + 1] ELSE p

\* showLoginBoxFallback that sets no timer.
showLoginBoxFallback_Never(p) == p

\* showLoginBoxFallback: a 100 ms timer that adds 'theme-ready'.
showLoginBoxFallback(p) ==
    IF env.loginBox /\ ~p.themeReady THEN [p EXCEPT !.timers = @ + 1] ELSE p

\* applyTheme: the page after it, and whether it threw.
applyTheme(p, theme) ==
    LET c == setCSSVariables(p.style, theme)
        p1 == [p EXCEPT !.style = c.style]
    IN  IF c.threw
        THEN [page |-> p1, threw |-> TRUE]
        ELSE [page |-> showLoginBox(setDefaultApp(toggleSearchBar(
                           toggleSidebar(p1, theme), theme), theme)),
              threw |-> FALSE]

\* --------------------------------------------------------------- loadTheme
\* loadThemeCatch that falls back only to an entry that has not expired.
loadThemeCatch_FreshOnly(theme, text) ==
    IF HasData(text) /\ isCacheValid(text, now)
    THEN [themeData |-> getCachedTheme(text).data, storage |-> text, threw |-> FALSE]
    ELSE [themeData |-> theme, storage |-> text, threw |-> TRUE]

\* loadThemeCatch that finds the entry but does not take its data.
loadThemeCatch_KeepsHeld(theme, text) ==
    IF HasData(text)
    THEN [themeData |-> theme, storage |-> text, threw |-> FALSE]
    ELSE [themeData |-> theme, storage |-> text, threw |-> TRUE]

\* The catch block of loadTheme: fall back to the cache entry's data, else
\* rethrow.  theme is this.themeData when the block is entered.
loadThemeCatch(theme, text) ==
    IF HasData(text)
    THEN [themeData |-> getCachedTheme(text).data, storage |-> text, threw |-> FALSE]
    ELSE [themeData |-> theme, storage |-> text, threw |-> TRUE]

\* loadThemeBody without the call of setCachedTheme.
loadThemeBody_NoWrite(text, t, data) ==
    LET theme == Unwrap(data) IN
    IF ~TruthyV(theme)
    THEN loadThemeCatch(theme, text)
    ELSE [themeData |-> theme, storage |-> text, threw |-> FALSE]

\* loadTheme from `const data = await response.json()` on: this.themeData is
\* assigned before it is tested.
loadThemeBody(text, t, data) ==
    LET theme == Unwrap(data) IN
    IF ~TruthyV(theme)
    THEN loadThemeCatch(theme, text)
    ELSE [themeData |-> theme, storage |-> setCachedTheme(text, theme, t),
          threw |-> FALSE]

\* -------------------------------------------------------------------- init
\* The catch block of init.
initCatch(p, theme) ==
    LET a == applyTheme(p, theme) IN
    IF a.threw
    THEN [page |-> a.page, pc |-> "rejected", install |-> FALSE]
    ELSE [page |-> showLoginBoxFallback(a.page), pc |-> "caught", install |-> FALSE]

\* init after `await this.loadThemeIfNeeded()`; threw: the await rejected.
initTail(p, theme, threw) ==
    IF threw THEN initCatch(p, theme)
    ELSE IF TruthyV(theme)
         THEN LET a == applyTheme(p, theme) IN
              IF a.threw THEN initCatch(a.page, theme)
              ELSE [page |-> a.page, pc |-> "done", install |-> TRUE]
         ELSE [page |-> p, pc |-> "done", install |-> TRUE]

\* setupEventListeners
setupEventListeners(l) ==
    [themeChanged |-> l.themeChanged + 1, observer |-> l.observer + 1]

\* ------------------------------------------------------------- the fetches
\* The callers of loadTheme: init (through loadThemeIfNeeded), the
\* 'themeChanged' listener and refreshTheme.
Owners == {"init", "themeChanged", "refreshTheme"}
NoReqs == [o \in Owners |-> 0]
InFlight == reqs["init"] + reqs["themeChanged"] + reqs["refreshTheme"]

\* fetch(...) called by loadTheme on behalf of owner.
Issue(owner) == [reqs EXCEPT ![owner] = @ + 1]

NoOp == [op |-> "none", owner |-> "none", cause |-> "none", threw |-> FALSE]

\* ------------------------------------------------------------ sample inputs
ThemeA ==
    Obj([sidebar_background_color |-> "#111", sidebar_text_color |-> "#eee",
         main_body_content_box_text_color |-> "#222",
         login_box_position |-> "Right", is_app_details_inside_the_box |-> "1",
         login_box_background_color |-> "#abc", hide_side_bar |-> "0",
         hide_app_switcher |-> "1", default_app |-> "crm",
         navbar_color |-> "#123", login_page_title |-> "Welcome",
         login_page_background_image |-> "/files/bg.png"],
        [present |-> TRUE, roles |-> {"Sales User"}])

ThemeB ==
    Obj([login_box_position |-> "Left", is_app_details_inside_the_box |-> "0",
         hide_side_bar |-> "1", navbar_color |-> "#456",
         hide_help_button |-> "1", table_hide_like_comment_section |-> "0"],
        [present |-> TRUE, roles |-> {"Administrator"}])

\* The JSON bodies the server answers with.
Bodies == { Bare(NullV), Wrap(NullV), Bare(ThemeA), Wrap(ThemeB) }

NoRoles == [present |-> FALSE, list |-> {}]

\* The pages the script is loaded in: a login page (no frappe.boot) whose
\* app switcher throws, and desk pages for two users, one of them with a full
\* localStorage and no app switcher.
Envs ==
    { [loginBox |-> TRUE, sidebar |-> FALSE, searchBar |-> FALSE,
       roles |-> NoRoles, switcher |-> "throws", storageFull |-> FALSE],
      [loginBox |-> FALSE, sidebar |-> TRUE, searchBar |-> TRUE,
       roles |-> [present |-> TRUE, list |-> {"Administrator", "System Manager"}],
       switcher |-> "ok", storageFull |-> FALSE],
      [loginBox |-> FALSE, sidebar |-> TRUE, searchBar |-> TRUE,
       roles |-> [present |-> TRUE, list |-> {"Sales User"}],
       switcher |-> "throws", storageFull |-> FALSE],
      [loginBox |-> FALSE, sidebar |-> TRUE, searchBar |-> TRUE,
       roles |-> [present |-> TRUE, list |-> {"Sales User"}],
       switcher |-> "absent", storageFull |-> TRUE] }

\* The document as the browser hands it to the script.
FreshPage(e) ==
    [style |-> NoStyle, expanded |-> FALSE, searchBar |-> e.searchBar,
     searchDisplay |-> "", themeReady |-> FALSE, timers |-> 0, appCalls |-> << >>]

StartTime == 2 * cacheTimeout

NoEvents == [n |-> 0, themeData |-> UndefV]

\* What localStorage may hold when the page is loaded.
InitialItems ==
    { NoItem, Garbage,
      Stringify([data |-> UndefV, timestamp |-> StartTime - 1, version |-> 1]),
      Stringify([data |-> ThemeA, timestamp |-> StartTime - cacheTimeout + 1,
                 version |-> 1]),
      Stringify([data |-> ThemeA, timestamp |-> StartTime - cacheTimeout,
                 version |-> 1]),
      Stringify([data |-> ThemeB, timestamp |-> StartTime - cacheTimeout - 1,
                 version |-> 1]) }

Init ==
    /\ themeData = NullV
    /\ storage \in InitialItems
    /\ now = StartTime
    /\ env \in Envs
    /\ page = FreshPage(env)
    /\ pc = "start"
    /\ reqs = NoReqs
    /\ listeners = [themeChanged |-> 0, observer |-> 0]
    /\ unhandled = {}
    /\ emitted = NoEvents
    /\ fetches = 0
    /\ acts = 0
    /\ last = NoOp

\* ----------------------------------------------------------------- actions
Op(op, owner, cause, threw) ==
    [op |-> op, owner |-> owner, cause |-> cause, threw |-> threw]

\* How init ends: r is the result of initCatch or initTail.
InitEnds(r) ==
    /\ page' = r.page
    /\ pc' = r.pc
    /\ listeners' = IF r.install THEN setupEventListeners(listeners) ELSE listeners
    /\ unhandled' = IF r.pc = "rejected" THEN unhandled \cup {"init"} ELSE unhandled

\* new FrappeDeskTheme(): init up to its first await that has to wait.  With a
\* valid cache loadThemeIfNeeded returns at once and init runs to its end.
InitStart ==
    /\ pc = "start"
    /\ LET hit == HasData(storage)
           theme == IF hit THEN getCachedTheme(storage).data ELSE themeData
           a == IF hit THEN applyTheme(page, theme)
                ELSE [page |-> showLoginBoxFallback(page), threw |-> FALSE]
       IN  /\ themeData' = theme
           /\ IF a.threw
              THEN /\ InitEnds(initCatch(a.page, theme))
                   /\ UNCHANGED <<reqs, fetches>>
              ELSE IF isCacheValid(storage, now)
              THEN /\ InitEnds(initTail(a.page, theme, FALSE))
                   /\ UNCHANGED <<reqs, fetches>>
              ELSE /\ page' = a.page
                   /\ pc' = "loading"
                   /\ reqs' = Issue("init")
                   /\ fetches' = fetches + 1
                   /\ UNCHANGED <<listeners, unhandled>>
           /\ last' = Op("init", "init", IF hit THEN "hit" ELSE "miss", a.threw)
    /\ UNCHANGED <<storage, now, env, emitted, acts>>

\* Settled with a refreshTheme that dispatches 'themeRefreshed' in a finally
\* block.
Settled_EmitsAlways(owner, r, cause) ==
    /\ reqs[owner] > 0
    /\ themeData' = r.themeData
    /\ storage' = r.storage
    /\ reqs' = [reqs EXCEPT ![owner] = @ - 1]
    /\ last' = Op("load", owner, cause, r.threw)
    /\ CASE owner = "init" ->
              /\ InitEnds(initTail(page, r.themeData, r.threw))
              /\ UNCHANGED emitted
         [] owner = "themeChanged" ->
              LET a == IF r.threw THEN [page |-> page, threw |-> TRUE]
                       ELSE applyTheme(page, r.themeData)
              IN  /\ page' = a.page
                  /\ unhandled' = IF a.threw THEN unhandled \cup {"themeChanged"}
                                  ELSE unhandled
                  /\ UNCHANGED <<pc, listeners, emitted>>
         [] owner = "refreshTheme" ->
              LET a == IF r.threw THEN [page |-> page, threw |-> TRUE]
                       ELSE applyTheme(page, r.themeData)
              IN  /\ page' = a.page
                  /\ emitted' = [n |-> emitted.n + 1, themeData |-> r.themeData]
                  /\ UNCHANGED <<pc, listeners, unhandled>>
    /\ UNCHANGED <<now, env, fetches, acts>>

\* The fetch of owner's loadTheme has settled and loadTheme has ended with r:
\* the continuation of the caller runs.  (loadTheme awaits the response and
\* then response.json(); it keeps nothing between the two, so they are one
\* step here.)
Settled(owner, r, cause) ==
    /\ reqs[owner] > 0
    /\ themeData' = r.themeData
    /\ storage' = r.storage
    /\ reqs' = [reqs EXCEPT ![owner] = @ - 1]
    /\ last' = Op("load", owner, cause, r.threw)
    /\ CASE owner = "init" ->
              /\ InitEnds(initTail(page, r.themeData, r.threw))
              /\ UNCHANGED emitted
         [] owner = "themeChanged" ->
              \* this.loadTheme().then(() => this.applyTheme()), no catch
              LET a == IF r.threw THEN [page |-> page, threw |-> TRUE]
                       ELSE applyTheme(page, r.themeData)
              IN  /\ page' = a.page
                  /\ unhandled' = IF a.threw THEN unhandled \cup {"themeChanged"}
                                  ELSE unhandled
                  /\ UNCHANGED <<pc, listeners, emitted>>
         [] owner = "refreshTheme" ->
              \* refreshTheme: try { await loadTheme(); applyTheme(); dispatch }
              LET a == IF r.threw THEN [page |-> page, threw |-> TRUE]
                       ELSE applyTheme(page, r.themeData)
              IN  /\ page' = a.page
                  /\ emitted' = IF a.threw THEN emitted
                                ELSE [n |-> emitted.n + 1, themeData |-> r.themeData]
                  /\ UNCHANGED <<pc, listeners, unhandled>>
    /\ UNCHANGED <<now, env, fetches, acts>>

\* The fetch fails: the response is not ok, fetch rejects (the network), or
\* response.json() rejects (the body is no JSON).  Each one throws inside the
\* try block of loadTheme before this.themeData is assigned.
FetchFails(owner) ==
    Settled(owner, loadThemeCatch(themeData, storage), "failed")

\* What a JSON body is to the caller: a theme ("ok"), nothing at all
\* ("emptyBody"), or a wrapper around nothing ("emptyMessage").
BodyKind(data) ==
    IF ~TruthyV(data.value)
    THEN IF data.wrapper THEN "emptyMessage" ELSE "emptyBody"
    ELSE "ok"

\* The response is ok and response.json() resolves with data.
BodyArrives(owner, data) ==
    Settled(owner, loadThemeBody(storage, now, data), BodyKind(data))

\* A 'themeChanged' listener that calls loadThemeIfNeeded for loadTheme.
ThemeChanged_IfNeeded ==
    /\ listeners.themeChanged > 0
    /\ acts < MaxActs
    /\ InFlight < MaxReq
    /\ reqs' = IF isCacheValid(storage, now) THEN reqs ELSE Issue("themeChanged")
    /\ fetches' = IF isCacheValid(storage, now) THEN fetches ELSE fetches + 1
    /\ acts' = acts + 1
    /\ UNCHANGED <<themeData, storage, now, env, page, pc, listeners, unhandled,
                   emitted, last>>

\* A 'themeChanged' event is dispatched on the document: the listener calls
\* loadTheme.
ThemeChanged ==
    /\ listeners.themeChanged > 0
    /\ acts < MaxActs
    /\ InFlight < MaxReq
    /\ reqs' = Issue("themeChanged")
    /\ fetches' = fetches + 1
    /\ acts' = acts + 1
    /\ UNCHANGED <<themeData, storage, now, env, page, pc, listeners, unhandled,
                   emitted, last>>

\* window.frappeDeskTheme.refreshTheme() up to its await.
RefreshTheme ==
    /\ pc # "start"
    /\ acts < MaxActs
    /\ InFlight < MaxReq
    /\ reqs' = Issue("refreshTheme")
    /\ fetches' = fetches + 1
    /\ acts' = acts + 1
    /\ UNCHANGED <<themeData, storage, now, env, page, pc, listeners, unhandled,
                   emitted, last>>

\* window.frappeDeskTheme.clearCache()
ClearCache ==
    /\ pc # "start"
    /\ storage' = NoItem
    /\ UNCHANGED <<themeData, now, env, page, pc, reqs, listeners, unhandled,
                   emitted, fetches, acts, last>>

\* DomMutation with an observer that runs the whole applyTheme.
DomMutation_Reapplies(kind) ==
    /\ env.sidebar
    /\ LET p1 == IF kind = "render"
                 THEN [page EXCEPT !.searchBar = TRUE, !.searchDisplay = ""]
                 ELSE page
       IN  page' = IF listeners.observer > 0 /\ TruthyV(themeData)
                   THEN applyTheme(p1, themeData).page
                   ELSE p1
    /\ UNCHANGED <<themeData, storage, now, env, pc, reqs, listeners, unhandled,
                   emitted, fetches, acts, last>>

\* The desk changes the children of the body: it renders the search bar anew
\* ("render") or changes something else.  The observer, once installed, runs
\* toggleSearchBar.
DomMutation(kind) ==
    /\ env.sidebar
    /\ LET p1 == IF kind = "render"
                 THEN [page EXCEPT !.searchBar = TRUE, !.searchDisplay = ""]
                 ELSE page
       IN  page' = IF listeners.observer > 0 THEN toggleSearchBar(p1, themeData)
                   ELSE p1
    /\ UNCHANGED <<themeData, storage, now, env, pc, reqs, listeners, unhandled,
                   emitted, fetches, acts, last>>

\* One of the timers of showLoginBox and showLoginBoxFallback fires.
TimerFires ==
    /\ page.timers > 0
    /\ page' = [page EXCEPT !.timers = @ - 1, !.themeReady = TRUE]
    /\ UNCHANGED <<themeData, storage, now, env, pc, reqs, listeners, unhandled,
                   emitted, fetches, acts, last>>

\* Time passes: d ms, just less than the TTL (an entry of age 0 stays valid
\* over one such step and expires over two; the entries aged exactly the TTL
\* are among InitialItems).
Tick(d) ==
    /\ acts < MaxActs
    /\ now' = now + d
    /\ acts' = acts + 1
    /\ UNCHANGED <<themeData, storage, env, page, pc, reqs, listeners, unhandled,
                   emitted, fetches, last>>

\* The page is loaded again: a new document and a new controller; what was in
\* flight is dropped, localStorage stays.
Reload ==
    /\ pc # "start"
    /\ acts < MaxActs
    /\ themeData' = NullV
    /\ page' = FreshPage(env)
    /\ pc' = "start"
    /\ reqs' = NoReqs
    /\ listeners' = [themeChanged |-> 0, observer |-> 0]
    /\ unhandled' = {}
    /\ emitted' = NoEvents
    /\ fetches' = 0
    /\ acts' = acts + 1
    /\ last' = NoOp
    /\ UNCHANGED <<storage, now, env>>

Next ==
    \/ InitStart
    \/ \E o \in Owners : FetchFails(o)
    \/ \E o \in Owners, data \in Bodies : BodyArrives(o, data)
    \/ ThemeChanged
    \/ RefreshTheme
    \/ ClearCache
    \/ \E kind \in {"render", "other"} : DomMutation(kind)
    \/ TimerFires
    \/ \E d \in {cacheTimeout - 1} : Tick(d)
    \/ Reload

Spec == Init /\ [][Next]_vars

\* Startup and the timers are scheduled by the browser: the constructor runs
\* once the document is ready, and a timer that is set fires.
FairSpec == Spec /\ WF_vars(InitStart) /\ WF_vars(TimerFires)

\* ------------------------------------------------------------------ claims
\* What of a page the theme decides: the root style, the sidebar's class and
\* the search bar's inline display.
Look(p) == <<p.style, p.expanded, p.searchDisplay>>

\* The style of a document on which nothing but theme was ever applied.
StyleOf(theme) == setCSSVariables(NoStyle, theme).style

\* C1: startup never lets an exception escape: whatever the cache holds and
\* however the fetch ends, the promise of init is not rejected.
C1_StartupNeverRejects == pc # "rejected" /\ "init" \notin unhandled

\* C2: in every startup run on a page with a login box, the login box gets
\* the 'theme-ready' class in the end (timers fire).
C2_LoginBoxRevealed == (pc # "start" /\ env.loginBox) ~> page.themeReady

\* C2 witness: cache and network have both failed, init has rejected, and the
\* login box is revealed.
C2_Witness == pc = "rejected" /\ env.loginBox /\ page.themeReady

\* C3: applyTheme with themeData null (the call in the catch block of init)
\* does not throw, runs through to the login-box reveal, and leaves the
\* default values set.
C3_ApplyNullCompletes ==
    (pc \in {"caught", "rejected"} /\ themeData = NullV) =>
        /\ pc = "caught"
        /\ \A p \in DOMAIN Defaults : page.style[p] = Defaults[p]
        /\ env.loginBox => (page.timers > 0 \/ page.themeReady)

\* C4: once a theme has been applied, every themed property has the value
\* the current ThemeConfig alone gives it; nothing an earlier application
\* wrote survives.  (Stated for the themes that are no wrapper object.)
C4_StyleFromLastThemeOnly ==
    (pc # "start" /\ TruthyV(themeData) /\ themeData.msg = NoMsg)
        => page.style = StyleOf(themeData)

\* C5: applying a ThemeConfig twice in succession leaves the same style, the
\* same sidebar class and the same search-bar display as applying it once:
\* on every page the model reaches, for the theme held and for each sample
\* theme; and in the startup that finds a valid cache entry, which applies
\* the cached theme twice.
C5_ApplyIdempotent ==
    /\ [](\A theme \in {themeData, ThemeA, ThemeB} :
            TruthyV(theme) =>
                LET once == applyTheme(page, theme).page
                IN  Look(applyTheme(once, theme).page) = Look(once))
    /\ [][(InitStart /\ HasData(storage) /\ pc' = "done")
            => Look(page') = Look(applyTheme(page, themeData').page)]_vars

\* C5 witness: a startup has applied the cached theme twice, with no fetch.
C5_Witness ==
    /\ pc = "done" /\ fetches = 0 /\ last = Op("init", "init", "hit", FALSE)
    /\ TruthyV(themeData) /\ env.sidebar /\ page.expanded

\* C6: isCacheValid is true iff an entry exists and now - timestamp is below
\* 86,400,000 ms (an age of exactly that is invalid), and neither the data
\* nor the version of the entry changes the answer.
C6_CacheValidity ==
    /\ isCacheValid(storage, now)
         <=> (storage.kind = "json" /\ now - storage.timestamp < 86400000)
    /\ \A d \in {UndefV, NullV, ThemeA, ThemeB}, v \in {0, 1, 2} :
         isCacheValid([storage EXCEPT !.data = d, !.version = v], now)
            = isCacheValid(storage, now)

\* C6 witness: startup has found an entry aged exactly 86,400,000 ms, taken
\* it as expired and issued the fetch.
C6_Witness ==
    /\ pc = "loading" /\ storage.kind = "json"
    /\ now - storage.timestamp = 86400000 /\ fetches = 1

\* C7: a ThemeConfig that setCachedTheme has written, read back by a startup
\* before the TTL is over, becomes themeData unchanged and is applied, and
\* that startup issues no fetch.  The write stores the theme held, stamped
\* with the time of the write; the startup that reads an entry younger than
\* the TTL takes its data as it is.
C7_CacheRoundTrip ==
    /\ [][(storage' # storage /\ storage'.kind = "json")
            => /\ getCachedTheme(storage').data = themeData'
               /\ getCachedTheme(storage').timestamp = now]_vars
    /\ [][(InitStart /\ HasData(storage) /\ now - storage.timestamp < cacheTimeout)
            => /\ themeData' = storage.data
               /\ page'.style = StyleOf(themeData')
               /\ fetches' = fetches /\ reqs' = reqs /\ pc' = "done"]_vars

\* C7 witness: the entry was written on an earlier load of the page (its
\* timestamp is not one of the initial ones), and this startup has taken the
\* theme from it without a fetch.
C7_Witness ==
    /\ pc = "done" /\ fetches = 0 /\ acts > 0
    /\ last = Op("init", "init", "hit", FALSE)
    /\ storage.kind = "json" /\ storage.timestamp >= StartTime
    /\ now > storage.timestamp
    /\ themeData = storage.data /\ TruthyV(themeData)

\* C8: when the fetch of loadTheme fails and a cache entry with data exists,
\* stale or not, loadTheme does not throw and themeData is the cached
\* ThemeConfig; when no entry exists, loadTheme throws to its caller.
C8_FailedFetchFallsBack ==
    [][\A o \in Owners :
         FetchFails(o) =>
            /\ HasData(storage) =>
                  /\ themeData' = storage.data
                  /\ ~last'.threw
                  /\ o = "init" => pc' = "done"
                  /\ o = "themeChanged" => unhandled' = unhandled
            /\ storage.kind # "json" =>
                  /\ last'.threw
                  /\ o = "init" => pc' \in {"caught", "rejected"}
                  /\ o = "themeChanged" => "themeChanged" \in unhandled'
                  /\ o = "refreshTheme" => emitted' = emitted]_vars

\* C8 witness: a fetch has failed, loadTheme has not thrown, and themeData is
\* the data of an expired entry.
C8_Witness ==
    /\ last.op = "load" /\ last.cause = "failed" /\ ~last.threw
    /\ storage.kind = "json" /\ now - storage.timestamp >= cacheTimeout
    /\ themeData = storage.data

\* C9: a response whose unwrapped payload is empty (a null body, or a
\* wrapper {message: null}) is a failure: it is not adopted as themeData and
\* not written to the cache; themeData falls back to the cache entry or the
\* failure is thrown.
C9_EmptyPayloadIsFailure ==
    [][\A o \in Owners, data \in Bodies :
         (BodyArrives(o, data) /\ ~TruthyV(data.value)) =>
            /\ storage' = storage
            /\ themeData' # WrapperOf(data.value)
            /\ IF HasData(storage) THEN themeData' = storage.data
               ELSE last'.threw]_vars

\* C10 as stated: after every successful fetch themeData is the unwrapped
\* payload and the cache entry is {data: payload, timestamp: now, version: 1}.
C10_AlwaysCached ==
    [][\A o \in Owners, data \in Bodies :
         (BodyArrives(o, data) /\ TruthyV(data.value)) =>
            /\ themeData' = data.value
            /\ storage' = [kind |-> "json", data |-> data.value,
                           timestamp |-> now, version |-> 1]]_vars

\* C10 amended: after every successful fetch themeData is the unwrapped
\* payload, and the cache entry is {data: payload, timestamp: now,
\* version: 1} unless localStorage refuses the write; then the entry stays
\* as it was.
C10_CachedUnlessWriteFails ==
    [][\A o \in Owners, data \in Bodies :
         (BodyArrives(o, data) /\ TruthyV(data.value)) =>
            /\ themeData' = data.value
            /\ ~last'.threw
            /\ storage' = IF env.storageFull THEN storage
                          ELSE [kind |-> "json", data |-> data.value,
                                timestamp |-> now, version |-> 1]]_vars

\* C10 witness: a refresh has fetched a theme; it is held and cached with the
\* time of the fetch.
C10_Witness ==
    /\ last = Op("load", "refreshTheme", "ok", FALSE)
    /\ themeData = ThemeA /\ emitted.n = 1
    /\ storage = [kind |-> "json", data |-> ThemeA, timestamp |-> now,
                  version |-> 1]
    /\ now > StartTime

\* The hide_search lists tried: absent, and every list over these roles.
RoleNames == {"Administrator", "System Manager", "Sales User", "Manager"}
SearchLists ==
    {NoSearch} \cup {[present |-> TRUE, roles |-> R] : R \in SUBSET RoleNames}

\* C11: getUserRoles is false when the user's role list or hide_search is
\* absent; for a user who holds Administrator it is true iff hide_search has
\* an Administrator entry, whatever the other roles; for any other user it
\* is true iff one of the user's roles is in hide_search.
C11_RoleMatch ==
    \A h \in SearchLists :
        LET theme == [EmptyObj EXCEPT !.hs = h] IN
        getUserRoles(theme) =
            IF ~env.roles.present \/ ~h.present THEN FALSE
            ELSE IF "Administrator" \in env.roles.list
                 THEN "Administrator" \in h.roles
                 ELSE env.roles.list \cap h.roles # {}

\* C11 witness: an Administrator who is also System Manager, under a theme
\* whose hide_search names Administrator, has the search bar hidden.
C11_Witness ==
    /\ env.roles.present /\ "Administrator" \in env.roles.list
    /\ themeData = ThemeB /\ page.searchBar /\ page.searchDisplay = "none"
    /\ pc = "done"

\* C12: with the search bar present, startup over and no fetch in flight,
\* the search bar is hidden iff getUserRoles is true of the ThemeConfig held;
\* a search bar hidden under an earlier ThemeConfig is shown again under one
\* that does not match the user.  (Stated for the themes that are no wrapper
\* object, on pages whose observer is installed.)
C12_SearchBarFollowsRoleMatch ==
    (/\ pc = "done" /\ InFlight = 0 /\ page.searchBar
     /\ TruthyV(themeData) /\ themeData.msg = NoMsg)
        => (page.searchDisplay = "none" <=> getUserRoles(themeData))

\* C13: after every applyTheme on a page with the sidebar container, the
\* container has the class 'expanded' iff hide_side_bar of the ThemeConfig is
\* the number 0, whatever the class was before; --sidebar-expanded follows
\* the same test.
C13_SidebarExpanded ==
    /\ \A theme \in {ThemeA, ThemeB, EmptyObj,
                     [ThemeA EXCEPT !.f["hide_side_bar"] = Null],
                     [ThemeA EXCEPT !.f["hide_side_bar"] = "false"]},
          was \in BOOLEAN :
          env.sidebar =>
             toggleSidebar([page EXCEPT !.expanded = was], theme).expanded
                = (Get(theme, "hide_side_bar") = "0")
    /\ (env.sidebar /\ pc = "done" /\ InFlight = 0 /\ TruthyV(themeData)) =>
          /\ page.expanded = (Get(themeData, "hide_side_bar") = "0")
          /\ (page.style["--sidebar-expanded"] = "expanded")
                = (Get(themeData, "hide_side_bar") = "0")

\* C13 witness: a theme with hide_side_bar 0 was applied on this page (its
\* sidebar colour is still set), then one with hide_side_bar 1: the class is
\* gone.
C13_Witness ==
    /\ env.sidebar /\ pc = "done" /\ themeData = ThemeB
    /\ page.style["--sidebar-bg"] = "#111" /\ ~page.expanded

\* C14: for login_box_position absent, Default, Left or Right and
\* is_app_details_inside_the_box undefined, 0 or 1, applied over whatever
\* style startup has left: position is absolute iff Left or Right, else
\* static; right is 10% iff Right, else auto; left is 10% iff Left, else
\* auto; positioned, the padding is 18px 40px 40px 40px with the flag 1 and
\* 40px otherwise; top is 26% iff the flag is 1, else 18%.
C14_LoginBoxGeometry ==
    [][InitStart =>
        \A pos \in {Undef, "Default", "Left", "Right"}, flag \in {Undef, "0", "1"} :
            LET theme == Obj([login_box_position |-> pos,
                              is_app_details_inside_the_box |-> flag], NoSearch)
                a == applyTheme(page', theme)
                s == a.page.style
                positioned == pos \in {"Left", "Right"}
            IN  /\ ~a.threw
                /\ s["--login-box-position"] =
                      IF positioned THEN "absolute" ELSE "static"
                /\ s["--login-box-right"] = IF pos = "Right" THEN "10%" ELSE "auto"
                /\ s["--login-box-left"] = IF pos = "Left" THEN "10%" ELSE "auto"
                /\ positioned => s["--login-box-padding"] =
                      IF flag = "1" THEN "18px 40px 40px 40px" ELSE "40px"
                /\ s["--login-box-top"] = IF flag = "1" THEN "26%" ELSE "18%"]_vars

\* C14 witness: on the login page the theme with position Right and the flag
\* 1 has been applied, and the box is revealed.
C14_Witness ==
    /\ env.loginBox /\ page.themeReady /\ themeData = ThemeA
    /\ page.style["--login-box-position"] = "absolute"
    /\ page.style["--login-box-right"] = "10%"
    /\ page.style["--login-box-left"] = "auto"
    /\ page.style["--login-box-padding"] = "18px 40px 40px 40px"
    /\ page.style["--login-box-top"] = "26%"

\* What applyTheme decides of a page for the theme: every property that
\* clearCSSVariables removes first, and the sidebar's class.
AppliedWith(p, theme) ==
    /\ LET s == StyleOf(theme) IN \A x \in ClearedProps : p.style[x] = s[x]
    /\ env.sidebar => p.expanded = (Get(theme, "hide_side_bar") = "0")

\* C15: every 'themeChanged' event the listener handles issues a fetch,
\* whether the cache entry is valid or not; when the fetch has settled with
\* a ThemeConfig to use (fetched, or taken from the cache after a failure),
\* the theme is applied again with it and nothing is left unhandled.
C15_ThemeChangedRefetches ==
    /\ [][ThemeChanged =>
            /\ fetches' = fetches + 1
            /\ reqs'["themeChanged"] = reqs["themeChanged"] + 1]_vars
    /\ [][((\/ FetchFails("themeChanged")
            \/ \E data \in Bodies : BodyArrives("themeChanged", data))
           /\ ~last'.threw)
            => /\ TruthyV(themeData')
               /\ AppliedWith(page', themeData')
               /\ env.loginBox => page'.timers = page.timers + 1
               /\ unhandled' = unhandled]_vars

\* C15 witness: startup found a valid entry and fetched nothing; the one
\* event on this page fetched all the same, and the fetched theme is applied.
C15_Witness ==
    /\ fetches = 1 /\ acts = 1 /\ now = StartTime
    /\ last = Op("load", "themeChanged", "ok", FALSE)
    /\ themeData = ThemeB /\ AppliedWith(page, ThemeB)
    /\ isCacheValid(storage, now)

\* C16: when the fetch started by a 'themeChanged' event fails and no cache
\* entry is there to fall back on, the listener catches the failure: no
\* promise rejection is left unhandled, and themeData and the page stay as
\* they were.
C16_ListenerCatchesFailure ==
    [][(FetchFails("themeChanged") /\ ~HasData(storage))
        => /\ unhandled' = unhandled
           /\ themeData' = themeData
           /\ page' = page]_vars

\* C17: every startup that has ended, the one whose fetch failed with no
\* cache entry included, has installed the 'themeChanged' listener and the
\* mutation observer, each once.
C17_ListenersInstalled ==
    pc \in {"done", "caught", "rejected"}
        => listeners = [themeChanged |-> 1, observer |-> 1]

\* C18: a refreshTheme whose loadTheme ends without throwing dispatches one
\* 'themeRefreshed' event, after the theme is applied again, with the
\* ThemeConfig then held as its detail; one whose load fails with no entry
\* to fall back on dispatches nothing and lets no exception out.
C18_RefreshEmitsOnce ==
    [][(\/ FetchFails("refreshTheme")
        \/ \E data \in Bodies : BodyArrives("refreshTheme", data))
        => IF last'.threw
           THEN /\ emitted' = emitted
                /\ unhandled' = unhandled /\ pc' = pc /\ page' = page
           ELSE /\ emitted' = [n |-> emitted.n + 1, themeData |-> themeData']
                /\ AppliedWith(page', themeData')
                /\ unhandled' = unhandled]_vars

\* C18 witness: two refreshes have completed on this page, two events are
\* out, and the detail of the latter is the theme held.
C18_Witness ==
    /\ emitted.n = 2 /\ emitted.themeData = themeData /\ themeData = ThemeB
    /\ last = Op("load", "refreshTheme", "ok", FALSE) /\ InFlight = 0

\* C19: set_current_app is called, with default_app, iff hide_app_switcher
\* is truthy, default_app is set and the capability exists; when the call
\* throws, applyTheme still runs to its end (the login-box reveal) and
\* throws nothing, so its caller goes on: the step does not reject startup
\* and leaves nothing unhandled.
C19_DefaultApp ==
    /\ [](\A h \in {Undef, "0", "1"}, d \in {Undef, Null, "", "crm"} :
            LET theme == [ThemeA EXCEPT !.f["hide_app_switcher"] = h,
                                        !.f["default_app"] = d]
            IN  setDefaultApp(page, theme).appCalls =
                   IF h = "1" /\ d = "crm" /\ env.switcher # "absent"
                   THEN Append(page.appCalls, d)
                   ELSE page.appCalls)
    /\ [][Len(page'.appCalls) > Len(page.appCalls) =>
            LET d == Get(themeData', "default_app")
                n == Len(page'.appCalls) - Len(page.appCalls)
            IN  /\ n \in {1, 2}
                /\ page'.appCalls = page.appCalls \o [i \in 1..n |-> d]
                /\ Truthy(d) /\ Truthy(Get(themeData', "hide_app_switcher"))
                /\ env.switcher # "absent"
                /\ AppliedWith(page', themeData')
                /\ env.loginBox => page'.timers >= page.timers + n
                /\ (pc' = "rejected" => pc = "rejected")
                /\ unhandled' = unhandled]_vars

\* C19 witness: on the login page the switcher throws; the call was made at
\* startup and again by a refresh, each time the reveal timer was set, and
\* each caller went on (startup is done, the event is out).
C19_Witness ==
    /\ env.switcher = "throws" /\ env.loginBox
    /\ page.appCalls = <<"crm", "crm">> /\ page.timers = 2
    /\ pc = "done" /\ unhandled = {} /\ emitted.n = 1 /\ themeData = ThemeA

\* The properties setCSSVariables writes and clearCSSVariables leaves alone
\* are not set on the page.
NoResidue(p) ==
    \A x \in (Props \ ClearedProps) \ {"--login-box-width"} : p.style[x] = ""

\* C20: two fetches of refreshTheme are in flight together (on a page that
\* carries nothing of an earlier theme); once both have succeeded,
\* themeData, the cache entry (while there is one) and the style of the page
\* are those of the response that settled last, and nothing of the other
\* response remains.
C20_LastResponseWins ==
    []((reqs["refreshTheme"] = 2 /\ InFlight = 2 /\ NoResidue(page)) =>
        []((/\ InFlight = 0 /\ emitted.n = 2
            /\ last = Op("load", "refreshTheme", "ok", FALSE))
            => /\ themeData = emitted.themeData
               /\ HasData(storage) => getCachedTheme(storage).data = themeData
               /\ page.style = StyleOf(themeData)))

\* C21: a startup that finds a cache entry with data makes it themeData and
\* applies it before the fetch goes out: while startup's fetch is in flight
\* the cached theme is already on the page.  Startup issues one fetch when
\* the entry is absent, unreadable or expired, and none when it is valid.
C21_CacheFirstThenFetch ==
    /\ [][InitStart =>
            /\ (storage.kind = "json" /\ TruthyV(storage.data)) =>
                  /\ themeData' = storage.data
                  /\ AppliedWith(page', themeData')
            /\ fetches = 0
            /\ fetches' = IF storage.kind = "json"
                             /\ now - storage.timestamp < cacheTimeout
                          THEN 0 ELSE 1
            /\ reqs' = IF fetches' = 1 THEN Issue("init") ELSE reqs]_vars
    /\ [](reqs["init"] <= 1 /\ (pc = "loading" <=> reqs["init"] = 1))
    /\ []((pc = "loading" /\ last = Op("init", "init", "hit", FALSE)) =>
            /\ TruthyV(themeData) /\ AppliedWith(page, themeData))

\* C21 witness: the expired entry's theme is held and applied while the one
\* fetch of startup is in flight.
C21_Witness ==
    /\ pc = "loading" /\ last = Op("init", "init", "hit", FALSE)
    /\ themeData = ThemeB /\ AppliedWith(page, ThemeB)
    /\ fetches = 1 /\ InFlight = 1 /\ ~isCacheValid(storage, now)

\* C22: the cache entry changes only when a fetch that brought a theme
\* overwrites it and when clearCache deletes it; a fetch that failed (HTTP or
\* network error, empty payload), with or without fallback, leaves the entry
\* and its timestamp as they were, and so does every other step; clearCache
\* leaves themeData and the page unchanged.
C22_EntryWrittenOnlyBySuccess ==
    [][/\ storage' # storage =>
            \/ ClearCache /\ storage' = NoItem
            \/ \E owner \in Owners, data \in Bodies :
                  /\ BodyArrives(owner, data)
                  /\ BodyKind(data) = "ok"
                  /\ storage' = Stringify([data |-> data.value,
                                           timestamp |-> now, version |-> 1])
       /\ ClearCache => UNCHANGED <<themeData, page>>]_vars

\* C23: a DOM-mutation callback changes nothing but the inline display of the
\* search bar: themeData, the cache entry, the themed style properties, the
\* sidebar class and the login-box class stay as they are, no fetch is issued
\* and the app switcher is not called; the search bar that is on the page is
\* hidden exactly when the roles match.
C23_ObserverTouchesSearchBarOnly ==
    [][\A kind \in {"render", "other"} :
          (DomMutation(kind) /\ listeners.observer > 0) =>
             /\ UNCHANGED <<themeData, storage, reqs, fetches, emitted,
                            unhandled, pc, listeners>>
             /\ page'.style = page.style
             /\ page'.expanded = page.expanded
             /\ page'.themeReady = page.themeReady
             /\ page'.timers = page.timers
             /\ page'.appCalls = page.appCalls
             /\ page'.searchDisplay =
                   IF page'.searchBar /\ getUserRoles(themeData) THEN "none"
                   ELSE IF kind = "render" THEN "" ELSE page.searchDisplay]_vars

\* C23 witness: a theme that hid the search bar was replaced by one that does
\* not; the desk rendered the search bar anew and the observer, finding no
\* role match, left it visible and the rest of the page as it was.
C23_Witness ==
    /\ listeners.observer > 0
    /\ themeData = ThemeB /\ page.style["--sidebar-bg"] = "#111"
    /\ env.roles.list = {"Sales User"}
    /\ page.searchBar /\ page.searchDisplay = ""

\* C24: a stored text that cannot be parsed behaves as no entry: the read
\* returns null without raising, the cache is neither valid nor a source of
\* data; startup applies nothing from it, schedules the fallback reveal and
\* issues its fetch; a failed fetch finds no fallback and rethrows.
C24_UnparseableIsAbsent ==
    /\ [](/\ getCachedTheme(Garbage) = getCachedTheme(NoItem)
          /\ ~getCachedTheme(Garbage).exists
          /\ isCacheValid(Garbage, now) = isCacheValid(NoItem, now)
          /\ ~isCacheValid(Garbage, now)
          /\ ~HasData(Garbage)
          /\ loadThemeCatch(themeData, Garbage).threw
          /\ loadThemeCatch(themeData, Garbage).themeData
                = loadThemeCatch(themeData, NoItem).themeData)
    /\ [][(InitStart /\ storage = Garbage) =>
             /\ themeData' = NullV
             /\ page'.style = NoStyle /\ ~page'.expanded
             /\ page'.timers = IF env.loginBox THEN 1 ELSE 0
             /\ pc' = "loading" /\ fetches' = 1 /\ reqs' = Issue("init")
             /\ last' = Op("init", "init", "miss", FALSE)
             /\ unhandled' = unhandled /\ storage' = storage]_vars
    /\ [][\A owner \in Owners :
             (FetchFails(owner) /\ storage = Garbage) =>
                /\ last'.threw /\ themeData' = themeData
                /\ storage' = storage]_vars

\* C24 witness: startup found an unparseable text, its fetch failed without
\* fallback, and the fallback reveal has shown the login box.
C24_Witness ==
    /\ storage = Garbage
    /\ last = Op("load", "init", "failed", TRUE)
    /\ themeData = NullV /\ fetches = 1
    /\ env.loginBox /\ page.themeReady /\ page.timers = 0

\* C25: when localStorage refuses the write during a fetch that brought a
\* theme, loadTheme still completes without throwing and themeData is the
\* fetched payload; the entry stored before, or its absence, stays exactly as
\* it was, and nothing is tried again: no further request goes out and the
\* caller continues as after any successful load.
C25_WriteFailureIsSilent ==
    [][\A owner \in Owners, data \in Bodies :
         (env.storageFull /\ BodyKind(data) = "ok" /\ BodyArrives(owner, data)) =>
            /\ ~last'.threw
            /\ themeData' = data.value
            /\ storage' = storage
            /\ fetches' = fetches
            /\ reqs' = [reqs EXCEPT ![owner] = @ - 1]
            /\ unhandled' = unhandled
            /\ owner = "refreshTheme" => emitted'.n = emitted.n + 1]_vars

\* C25 witness: a refresh fetched ThemeA while the storage was full: ThemeA
\* is held and applied, and the older entry with ThemeB is still stored.
C25_Witness ==
    /\ env.storageFull
    /\ last = Op("load", "refreshTheme", "ok", FALSE)
    /\ themeData = ThemeA /\ emitted.n = 1 /\ InFlight = 0
    /\ storage.kind = "json" /\ storage.data = ThemeB
    /\ storage.timestamp < StartTime

\* C26: on a page where cache writes succeed, at every point after startup's
\* cache read, a cache entry that has data holds the very theme that is in
\* themeData, whatever fetches have succeeded or failed and whatever
\* refreshes, events and DOM mutations have happened.
C26_EntryDataIsThemeData ==
    (pc # "start" /\ ~env.storageFull /\ HasData(storage)) =>
        themeData = getCachedTheme(storage).data

\* C26 witness: after a successful refresh to ThemeA and a later load that
\* failed and fell back, the entry and themeData are both ThemeA.
C26_Witness ==
    /\ ~env.storageFull /\ pc = "done" /\ InFlight = 0
    /\ last = Op("load", "themeChanged", "failed", FALSE)
    /\ emitted.n = 1 /\ emitted.themeData = ThemeA
    /\ HasData(storage) /\ storage.timestamp = StartTime
    /\ themeData = ThemeA /\ storage.data = ThemeA

\* C27: a load that fails (HTTP or network error, empty payload), with or
\* without a cache entry to fall back on, leaves a themeData that was
\* non-null still non-null.
C27_FailedLoadKeepsTheme ==
    [][\A owner \in Owners :
         (/\ TruthyV(themeData)
          /\ \/ FetchFails(owner)
             \/ \E data \in Bodies :
                   BodyKind(data) # "ok" /\ BodyArrives(owner, data))
         => TruthyV(themeData')]_vars

\* C28: whenever startup has completed without taking its failure path, and
\* nothing was loaded since, themeData is non-null and has been applied;
\* for every stored entry, the fresh entry without data included.
C28_StartupEndsThemed ==
    (pc = "done" /\ last.owner = "init") =>
        /\ TruthyV(themeData)
        /\ AppliedWith(page, themeData)

====
